---- MODULE Spec2Model ----
(***************************************************************************)
(* Model of the Cloudflare email worker: the email handler (index.ts), the *)
(* message helper (helper.ts), the two channel adapters (telegram.ts,      *)
(* wecom.ts) and the dispatcher Bot with its KV ledger.                    *)
(*                                                                         *)
(* Strings are sequences of one-character strings, so that split, trim,    *)
(* toLowerCase, endsWith and the regular expressions are computed as the   *)
(* code computes them.  An unset environment variable and the empty string *)
(* are both the empty sequence: the code only ever tests them for          *)
(* truthiness.                                                             *)
(***************************************************************************)
EXTENDS Integers, Sequences, FiniteSets, TLC

(***************************************************************************)
(* String primitives of the JavaScript runtime.                            *)
(***************************************************************************)
Upper == {"A", "B"}

LowerOf(c) ==
  CASE c = "A" -> "a" [] c = "B" -> "b" [] c = "C" -> "c" [] c = "D" -> "d"
    [] c = "E" -> "e" [] c = "F" -> "f" [] c = "X" -> "x" [] OTHER -> c

ToLowerCase(s) == [i \in 1..Len(s) |-> LowerOf(s[i])]

IsSpace(c) == c = " "

RECURSIVE TrimStart(_)
TrimStart(s) ==
  IF s # <<>> /\ IsSpace(Head(s)) THEN TrimStart(Tail(s)) ELSE s

RECURSIVE TrimEnd(_)
TrimEnd(s) ==
  IF s # <<>> /\ IsSpace(s[Len(s)]) THEN TrimEnd(SubSeq(s, 1, Len(s) - 1)) ELSE s

Trim(s) == TrimEnd(TrimStart(s))

\* s.split(sep) for a one-character separator: always at least one piece.
RECURSIVE SplitFrom(_, _, _)
SplitFrom(s, sep, cur) ==
  IF s = <<>> THEN <<cur>>
  ELSE IF Head(s) = sep THEN <<cur>> \o SplitFrom(Tail(s), sep, <<>>)
  ELSE SplitFrom(Tail(s), sep, Append(cur, Head(s)))

Split(s, sep) == SplitFrom(s, sep, <<>>)

EndsWith(s, suffix) ==
  /\ Len(suffix) <= Len(s)
  /\ SubSeq(s, Len(s) - Len(suffix) + 1, Len(s)) = suffix

IncludesChar(s, c) == \E i \in 1..Len(s) : s[i] = c

MapSeq(Op(_), s) == [i \in 1..Len(s) |-> Op(s[i])]

Truthy(s) == s # <<>>

(***************************************************************************)
(* helper.ts: MessageHelper                                                *)
(***************************************************************************)
normalizeConfigList(input) ==
  SelectSeq(MapSeq(LAMBDA item : ToLowerCase(Trim(item)), Split(input, ",")),
            Truthy)

\* The constructor: "throws" or the helper's two lists.
MessageHelperNew(whitelist, codeKeywords) ==
  IF ~Truthy(whitelist) THEN [threw |-> TRUE, whitelistItems |-> <<>>, codeKeywords |-> <<>>]
  ELSE IF ~Truthy(codeKeywords) THEN [threw |-> TRUE, whitelistItems |-> <<>>, codeKeywords |-> <<>>]
  ELSE [threw |-> FALSE,
        whitelistItems |-> normalizeConfigList(whitelist),
        codeKeywords |-> normalizeConfigList(codeKeywords)]

ItemMatchesNoSubdomain(emailLower, item) ==
  IF IncludesChar(item, "@") THEN emailLower = item
  ELSE EndsWith(emailLower, <<"@">> \o item)

ItemMatches(emailLower, item) ==
  IF IncludesChar(item, "@") THEN emailLower = item
  ELSE EndsWith(emailLower, <<"@">> \o item) \/ EndsWith(emailLower, <<".">> \o item)

isWhitelisted(whitelistItems, from) ==
  LET emailLower == ToLowerCase(from)
  IN  \E k \in 1..Len(whitelistItems) : ItemMatches(emailLower, whitelistItems[k])

(***************************************************************************)
(* helper.ts: processText and the regular expression CODE_PATTERN          *)
(***************************************************************************)
Letters == {"a", "b", "c", "d", "e", "f", "x", "A", "B", "C", "D", "E", "F", "X"}

\* \w
IsWordChar(c) == c \in {"0", "1", "2", "3", "4", "5", "6", "7", "8", "9", "_"} \cup Letters

\* \d
IsDigit(c) == c \in {"0", "1", "2", "3", "4", "5", "6", "7", "8", "9"}

\* \s
IsWhite(c) == c \in {" ", "\n"}

\* \b between positions i and i + 1 of text (i = 0: the start, i = Len: the end)
WordBreak(text, i) ==
  LET left == i >= 1 /\ IsWordChar(text[i])
      right == i < Len(text) /\ IsWordChar(text[i + 1])
  IN  left # right

\* /\b\d[\d\s]{4,}\d\b/ matches text[p..e]
CodeSpan(text, p, e) ==
  /\ e - p - 1 >= 4
  /\ WordBreak(text, p - 1)
  /\ IsDigit(text[p])
  /\ \A i \in (p + 1)..(e - 1) : IsDigit(text[i]) \/ IsWhite(text[i])
  /\ IsDigit(text[e])
  /\ WordBreak(text, e)

\* where the match that starts at p ends: the greedy quantifier gives the
\* longest one; 0 when nothing matches at p
MatchEnd(text, p) ==
  LET ends == {e \in p..Len(text) : CodeSpan(text, p, e)}
  IN  IF ends = {} THEN 0 ELSE CHOOSE e \in ends : \A d \in ends : d <= e

\* text.match(CODE_PATTERN) with the g flag: the matches from left to right,
\* as spans
RECURSIVE MatchesFrom(_, _)
MatchesFrom(text, p) ==
  IF p > Len(text) THEN <<>>
  ELSE IF MatchEnd(text, p) > 0
    THEN <<[s |-> p, e |-> MatchEnd(text, p)]>> \o MatchesFrom(text, MatchEnd(text, p) + 1)
    ELSE MatchesFrom(text, p + 1)

MatchCodes(text) ==
  LET spans == MatchesFrom(text, 1)
  IN  [k \in 1..Len(spans) |-> SubSeq(text, spans[k].s, spans[k].e)]

\* String.prototype.indexOf: the first position of pat in s, 0 when absent
IndexOf(s, pat) ==
  LET hits == {i \in 1..(Len(s) - Len(pat) + 1) : SubSeq(s, i, i + Len(pat) - 1) = pat}
  IN  IF hits = {} THEN 0 ELSE CHOOSE i \in hits : \A j \in hits : i <= j

Includes(s, pat) == IndexOf(s, pat) > 0

\* s.replace(pat, by) for a string pattern: the first occurrence only
ReplaceFirst(s, pat, by) ==
  LET i == IndexOf(s, pat)
  IN  IF i = 0 THEN s
      ELSE SubSeq(s, 1, i - 1) \o by \o SubSeq(s, i + Len(pat), Len(s))

\* code.replace(/\s+/g, '')
StripWhite(code) == SelectSeq(code, LAMBDA c : ~IsWhite(c))

\* the code-block delimiter, three backquotes; "^" stands for the backquote
Fence == <<"^", "^", "^">>

\* what a code is replaced by: bare for the text type, fenced for markdown
CodeReplacement(code, type) ==
  IF type = "text" THEN StripWhite(code)
  ELSE Fence \o <<"\n">> \o StripWhite(code) \o <<"\n">> \o Fence


\* the codes.map callback, code after code, on the running processedText
RECURSIVE ReplaceCodes(_, _, _)
ReplaceCodes(processedText, codes, type) ==
  IF codes = <<>> THEN processedText
  ELSE ReplaceCodes(ReplaceFirst(processedText, Head(codes), CodeReplacement(Head(codes), type)),
                    Tail(codes), type)

hasCodeKeyword(codeKeywords, text) ==
  \E k \in 1..Len(codeKeywords) : Includes(ToLowerCase(text), codeKeywords[k])

processText(codeKeywords, text, type) ==
  IF hasCodeKeyword(codeKeywords, text)
    THEN ReplaceCodes(text, MatchCodes(text), type)
    ELSE text

(***************************************************************************)
(* telegram.ts / wecom.ts: validation of the destination lists             *)
(***************************************************************************)
Digits == {"0", "1", "2", "3", "4", "5", "6", "7", "8", "9"}

HexDigits == Digits \cup {"a", "b", "c", "d", "e", "f", "A", "B", "C", "D", "E", "F"}

\* /^-?\d+$/
IsChatId(id) ==
  LET body == IF id # <<>> /\ Head(id) = "-" THEN Tail(id) ELSE id
  IN  /\ body # <<>>
      /\ \A i \in 1..Len(body) : body[i] \in Digits

UuidLen == 36

UuidDashes == {9, 14, 19, 24}

\* /^[a-fA-F0-9]{8}(-[a-fA-F0-9]{4}){3}-[a-fA-F0-9]{12}$/
IsGuid(id) ==
  /\ Len(id) = UuidLen
  /\ \A i \in 1..Len(id) :
       IF i \in UuidDashes THEN id[i] = "-" ELSE id[i] \in HexDigits

getValidChatIds(rawId) ==
  LET chatIds == SelectSeq(MapSeq(Trim, Split(rawId, ",")), IsChatId)
  IN  IF Len(chatIds) = 0 THEN [threw |-> TRUE, dests |-> <<>>]
      ELSE [threw |-> FALSE, dests |-> chatIds]

WebhookPrefix == <<"k", "e", "y", "=">>

getValidWebhookUrls(rawGuid) ==
  LET guids == SelectSeq(MapSeq(Trim, Split(rawGuid, ",")), IsGuid)
  IN  IF Len(guids) = 0 THEN [threw |-> TRUE, dests |-> <<>>]
      ELSE [threw |-> FALSE, dests |-> MapSeq(LAMBDA guid : WebhookPrefix \o guid, guids)]

TelegramMessageNew(token, id) ==
  IF ~Truthy(token) THEN [threw |-> TRUE, dests |-> <<>>]
  ELSE IF ~Truthy(id) THEN [threw |-> TRUE, dests |-> <<>>]
  ELSE getValidChatIds(id)

WeComMessageNew(guid) ==
  IF ~Truthy(guid) THEN [threw |-> TRUE, dests |-> <<>>]
  ELSE getValidWebhookUrls(guid)


(***************************************************************************)
(* parseInt(string), radix unspecified: leading white space, a sign, a     *)
(* 0x prefix, then the longest run of digits; NaN when there is none.      *)
(***************************************************************************)
NaN == [nan |-> TRUE, val |-> 0]

Num(n) == [nan |-> FALSE, val |-> n]

DigitVal(c) ==
  CASE c = "0" -> 0 [] c = "1" -> 1 [] c = "2" -> 2 [] c = "3" -> 3
    [] c = "4" -> 4 [] c = "5" -> 5 [] c = "6" -> 6 [] c = "7" -> 7
    [] c = "8" -> 8 [] c = "9" -> 9
    [] c \in {"a", "A"} -> 10 [] c \in {"b", "B"} -> 11
    [] c \in {"c", "C"} -> 12 [] c \in {"d", "D"} -> 13
    [] c \in {"e", "E"} -> 14 [] c \in {"f", "F"} -> 15

RECURSIVE DigitRun(_, _, _, _)
\* value of the longest prefix of s made of digits of the radix; seen = a digit was read
DigitRun(s, radixDigits, radix, acc) ==
  IF s # <<>> /\ Head(s) \in radixDigits
    THEN DigitRun(Tail(s), radixDigits, radix, [seen |-> TRUE, val |-> acc.val * radix + DigitVal(Head(s))])
    ELSE acc

parseInt(str) ==
  LET s0 == TrimStart(str)
      neg == s0 # <<>> /\ Head(s0) = "-"
      s1 == IF s0 # <<>> /\ Head(s0) \in {"-", "+"} THEN Tail(s0) ELSE s0
      hex == Len(s1) >= 2 /\ s1[1] = "0" /\ s1[2] \in {"x", "X"}
      run == IF hex THEN DigitRun(Tail(Tail(s1)), HexDigits, 16, [seen |-> FALSE, val |-> 0])
                    ELSE DigitRun(s1, Digits, 10, [seen |-> FALSE, val |-> 0])
  IN  IF ~run.seen THEN NaN
      ELSE Num(IF neg THEN 0 - run.val ELSE run.val)

(***************************************************************************)
(* bot: the dispatcher's constructor                                       *)
(***************************************************************************)
DefaultTtl == <<"8", "6", "4", "0", "0">>

\* mutant: an adapter whose construction fails is left out, the others are kept
BotNewSkipInvalid(env) ==
  LET ttl == parseInt(IF Truthy(env.MESSAGE_EXPIRATION_TTL) THEN env.MESSAGE_EXPIRATION_TTL ELSE DefaultTtl)
      useTg == Truthy(env.TELEGRAM_BOT_TOKEN) /\ Truthy(env.TELEGRAM_CHAT_IDS)
      tg == TelegramMessageNew(env.TELEGRAM_BOT_TOKEN, env.TELEGRAM_CHAT_IDS)
      useWc == Truthy(env.WECOM_BOT_GUID)
      wc == WeComMessageNew(env.WECOM_BOT_GUID)
      tgBots == IF useTg /\ ~tg.threw THEN <<[kind |-> "telegram", dests |-> tg.dests]>> ELSE <<>>
      wcBots == IF useWc /\ ~wc.threw THEN <<[kind |-> "wecom", dests |-> wc.dests]>> ELSE <<>>
  IN  [threw |-> FALSE, ttl |-> ttl, bots |-> tgBots \o wcBots]

BotNew(env) ==
  LET ttl == parseInt(IF Truthy(env.MESSAGE_EXPIRATION_TTL) THEN env.MESSAGE_EXPIRATION_TTL ELSE DefaultTtl)
      useTg == Truthy(env.TELEGRAM_BOT_TOKEN) /\ Truthy(env.TELEGRAM_CHAT_IDS)
      tg == TelegramMessageNew(env.TELEGRAM_BOT_TOKEN, env.TELEGRAM_CHAT_IDS)
      useWc == Truthy(env.WECOM_BOT_GUID)
      wc == WeComMessageNew(env.WECOM_BOT_GUID)
      tgBots == IF useTg THEN <<[kind |-> "telegram", dests |-> tg.dests]>> ELSE <<>>
      wcBots == IF useWc THEN <<[kind |-> "wecom", dests |-> wc.dests]>> ELSE <<>>
  IN  IF useTg /\ tg.threw THEN [threw |-> TRUE, ttl |-> ttl, bots |-> <<>>]
      ELSE IF useWc /\ wc.threw THEN [threw |-> TRUE, ttl |-> ttl, bots |-> <<>>]
      ELSE [threw |-> FALSE, ttl |-> ttl, bots |-> tgBots \o wcBots]

NoBot == [threw |-> FALSE, ttl |-> NaN, bots |-> <<>>]

(***************************************************************************)
(* Adapter send and the dispatcher's merge of the outcomes                 *)
(***************************************************************************)
\* One destination's task (the try/catch around fetch): it always fulfils,
\* with the provider's response or with a synthetic status-500 response.
\* "dest" records the destination the task belongs to.
DestTask(dest, outcome) ==
  IF outcome = "ok" THEN [settled |-> "fulfilled", ok |-> TRUE, status |-> 200, dest |-> dest]
  ELSE [settled |-> "fulfilled", ok |-> FALSE, status |-> 500, dest |-> dest]

\* mutant: failed destinations dropped from the adapter's result
AdapterResultOkOnly(bot, reqs) ==
  SelectSeq([i \in 1..Len(bot.dests) |-> DestTask(bot.dests[i], reqs[i].st)],
            LAMBDA o : o.ok)

\* Promise.allSettled over the destination tasks: one entry each, in order.
AdapterResult(bot, reqs) ==
  [i \in 1..Len(bot.dests) |-> DestTask(bot.dests[i], reqs[i].st)]

\* Promise.allSettled over the adapters' send promises: one settled object
\* per adapter, whose value is that adapter's array of outcomes.
BotResults(bots, reqs) ==
  [a \in 1..Len(bots) |->
     [isArray |-> FALSE, status |-> "fulfilled", value |-> AdapterResult(bots[a], reqs[a])]]

\* Array.prototype.flat(): only elements that are arrays are spliced in.
RECURSIVE Flat(_)
Flat(xs) ==
  IF xs = <<>> THEN <<>>
  ELSE (IF Head(xs).isArray THEN Head(xs).value ELSE <<Head(xs)>>) \o Flat(Tail(xs))

\* mutant: a failed fetch is retried once
SettleRequestRetry(r, outcome) ==
  IF outcome # "ok" /\ r.attempts < 2
    THEN [r EXCEPT !.attempts = @ + 1]
    ELSE [r EXCEPT !.st = outcome]

\* What one fetch leaves behind in its request record.
SettleRequest(r, outcome) == [r EXCEPT !.st = outcome]

\* The requests a fan-out issues: one per destination of every adapter.
IssueRequests(bots) ==
  [a \in 1..Len(bots) |-> [i \in 1..Len(bots[a].dests) |-> [st |-> "pending", attempts |-> 1]]]

RECURSIVE TotalDests(_)
TotalDests(bots) ==
  IF bots = <<>> THEN 0 ELSE Len(Head(bots).dests) + TotalDests(Tail(bots))

(***************************************************************************)
(* Bounds and input sets                                                   *)
(***************************************************************************)
MaxEvents == 2

MaxInFlight == 2

\* most destinations, over all adapters, of a configuration the model draws
MaxDests == 2

Events == 1..MaxEvents

NoId == ""

MsgIds == {"m1", "m2"}

Outcomes == {"ok", "bad", "fault"}

NoEntry == [present |-> FALSE, value |-> "", ttl |-> NaN, by |-> 0, over |-> FALSE]

VARIABLES
  env,        \* the worker's environment bindings
  text,       \* the body handed to processText, its type and the result
  ledger,     \* the KV namespace: message id -> entry
  pc,         \* where each event's handler stands
  from,       \* message.from of each event
  allowed,    \* result of the allowlist check: "unknown", "yes", "no"
  parsed,     \* helper.parse resolved for the event
  msgId,      \* messageId of the parsed message (NoId when absent)
  bot,        \* the Bot constructed for the event
  isSent,     \* what checkIsMessageSent returned: "unread", "yes", "no"
  req,        \* per adapter, per destination: the request's state
  results,    \* bot.send's local "results": what Promise.allSettled gave
  sendResult, \* how bot.send ended and what it returned
  forwards,   \* number of times the original email was forwarded
  kvReads,    \* number of ledger reads made by the event
  kvWrites,   \* the ledger writes made by the event
  completed,  \* ids with a returned send whose entry has not expired since
  priorSent,  \* the event's send began after a send for its id had returned
  priorFailed \* the event's send began after a send for its id had failed at the write

vars == <<env, text, ledger, pc, from, allowed, parsed, msgId, bot, isSent, req, results,
          sendResult, forwards, kvReads, kvWrites, completed, priorSent, priorFailed>>

\* mutant: the lookup's result compared so that it never counts as sent
checkIsMessageSentNever(kv, messageId) == kv[messageId].present /\ kv[messageId].value = ""

\* kv.get(messageId) !== null
checkIsMessageSent(kv, messageId) == kv[messageId].present

\* kv.put(messageId, '1', { expirationTtl: ttl }); "by" records the writer,
\* "over" whether the put replaced an entry that had not expired
markMessageAsSent(kv, messageId, ttl, by) ==
  [kv EXCEPT ![messageId] = [present |-> TRUE, value |-> "1", ttl |-> ttl, by |-> by,
                             over |-> kv[messageId].present]]

NoText == [raw |-> <<>>, type |-> "markdown", out |-> <<>>]

\* the body of the inbound email in the handler's specification
BodyChoices == {<<"c", " ", "1", "2", " ", "3", "4", "5", "6">>}

NoResult == [state |-> "none", value |-> <<>>]

InFlight == Cardinality({e \in Events : pc[e] \notin {"idle", "done", "aborted"}})

AllSettledReqs(e) ==
  \A a \in 1..Len(req[e]) : \A i \in 1..Len(req[e][a]) : req[e][a][i].st # "pending"

(***************************************************************************)
(* Initial states                                                          *)
(***************************************************************************)
EventInit ==
  /\ text = [e \in Events |-> NoText]
  /\ ledger = [m \in MsgIds |-> NoEntry]
  /\ pc = [e \in Events |-> "idle"]
  /\ from = [e \in Events |-> <<>>]
  /\ allowed = [e \in Events |-> "unknown"]
  /\ parsed = [e \in Events |-> FALSE]
  /\ msgId = [e \in Events |-> NoId]
  /\ bot = [e \in Events |-> NoBot]
  /\ isSent = [e \in Events |-> "unread"]
  /\ req = [e \in Events |-> <<>>]
  /\ results = [e \in Events |-> <<>>]
  /\ sendResult = [e \in Events |-> NoResult]
  /\ forwards = [e \in Events |-> 0]
  /\ kvReads = [e \in Events |-> 0]
  /\ kvWrites = [e \in Events |-> <<>>]
  /\ completed = {}
  /\ priorSent = [e \in Events |-> FALSE]
  /\ priorFailed = [e \in Events |-> FALSE]

Guid1 == <<"0","0","0","0","0","0","0","a","-","0","0","0","1","-","0","0","0","2","-",
           "0","0","0","3","-","0","0","0","0","0","0","0","0","0","0","0","F">>

WhitelistChoices == {<<>>, <<"b">>}

KeywordChoices == {<<>>, <<"c">>}

ChatIdChoices == {<<>>, <<"x">>, <<"1">>, <<"1", ",", "2">>}

GuidChoices == {<<>>, <<"x">>, Guid1}

TtlChoices == {<<>>, <<"6", "0">>}

FromChoices == {<<"a", "@", "b">>, <<"a", "@", "c">>}

Init ==
  /\ env \in [EMAIL_WHITELIST : WhitelistChoices,
              CODE_KEYWORDS : KeywordChoices,
              TELEGRAM_BOT_TOKEN : {<<"t">>},
              TELEGRAM_CHAT_IDS : ChatIdChoices,
              WECOM_BOT_GUID : GuidChoices,
              MESSAGE_EXPIRATION_TTL : TtlChoices]
  /\ TotalDests(BotNew(env).bots) <= MaxDests
  /\ EventInit

(***************************************************************************)
(* index.ts: the email handler, one action per stretch between awaits      *)
(***************************************************************************)
\* a send for this id has already failed at its ledger write
WriteFailedFor(id) ==
  \E d \in Events : msgId[d] = id /\ isSent[d] = "no" /\ sendResult[d].state = "threw"

\* mutant: a message without an id is treated as already sent
BotSendStartSkipNoId(e, b, id) ==
  IF id = NoId
    THEN /\ pc' = [pc EXCEPT ![e] = "forwarding"]
         /\ UNCHANGED <<req, kvReads, priorSent, priorFailed>>
    ELSE /\ pc' = [pc EXCEPT ![e] = "kvget"]
         /\ kvReads' = [kvReads EXCEPT ![e] = @ + 1]
         /\ priorSent' = [priorSent EXCEPT ![e] = id \in completed]
         /\ priorFailed' = [priorFailed EXCEPT ![e] = WriteFailedFor(id)]
         /\ UNCHANGED req

\* bot.send up to its first await: the ledger lookup, or straight the fan-out
BotSendStart(e, b, id) ==
  IF id = NoId
    THEN /\ pc' = [pc EXCEPT ![e] = "fanout"]
         /\ req' = [req EXCEPT ![e] = IssueRequests(b.bots)]
         /\ UNCHANGED <<kvReads, priorSent, priorFailed>>
    ELSE /\ pc' = [pc EXCEPT ![e] = "kvget"]
         /\ kvReads' = [kvReads EXCEPT ![e] = @ + 1]
         /\ priorSent' = [priorSent EXCEPT ![e] = id \in completed]
         /\ priorFailed' = [priorFailed EXCEPT ![e] = WriteFailedFor(id)]
         /\ UNCHANGED req

\* mutant: the early return of the not-allowlisted branch is missing
ReceiveFallThrough(e, f) ==
  /\ pc[e] = "idle"
  /\ \A d \in Events : d < e => pc[d] # "idle"
  /\ InFlight < MaxInFlight
  /\ from' = [from EXCEPT ![e] = f]
  /\ LET h == MessageHelperNew(env.EMAIL_WHITELIST, env.CODE_KEYWORDS)
     IN  IF h.threw
           THEN /\ pc' = [pc EXCEPT ![e] = "aborted"]
                /\ UNCHANGED allowed
           ELSE /\ allowed' = [allowed EXCEPT ![e] =
                                 IF isWhitelisted(h.whitelistItems, f) THEN "yes" ELSE "no"]
                /\ pc' = [pc EXCEPT ![e] = "parsing"]
  /\ UNCHANGED <<env, text, ledger, parsed, msgId, bot, isSent, req, results, sendResult,
                 forwards, kvReads, kvWrites, completed, priorSent, priorFailed>>

\* lines 5-22: construct the helper, check the allowlist, start the forward
\* or the parse
Receive(e, f) ==
  /\ pc[e] = "idle"
  /\ \A d \in Events : d < e => pc[d] # "idle"
  /\ InFlight < MaxInFlight
  /\ from' = [from EXCEPT ![e] = f]
  /\ LET h == MessageHelperNew(env.EMAIL_WHITELIST, env.CODE_KEYWORDS)
     IN  IF h.threw
           THEN /\ pc' = [pc EXCEPT ![e] = "aborted"]
                /\ UNCHANGED allowed
           ELSE IF ~isWhitelisted(h.whitelistItems, f)
             THEN /\ allowed' = [allowed EXCEPT ![e] = "no"]
                  /\ pc' = [pc EXCEPT ![e] = "forwardOnly"]
             ELSE /\ allowed' = [allowed EXCEPT ![e] = "yes"]
                  /\ pc' = [pc EXCEPT ![e] = "parsing"]
  /\ UNCHANGED <<env, text, ledger, parsed, msgId, bot, isSent, req, results, sendResult,
                 forwards, kvReads, kvWrites, completed, priorSent, priorFailed>>

\* line 22 rejects: the catch block, then the forward
ParseFail(e) ==
  /\ pc[e] = "parsing"
  /\ pc' = [pc EXCEPT ![e] = "forwarding"]
  /\ UNCHANGED <<env, text, ledger, from, allowed, parsed, msgId, bot, isSent, req, results,
                 sendResult, forwards, kvReads, kvWrites, completed, priorSent, priorFailed>>

\* line 22 resolves; lines 25-26: new Bot(env) and bot.send up to its first await
ParseDone(e, id) ==
  /\ pc[e] = "parsing"
  /\ \E t \in BodyChoices :
       text' = [text EXCEPT ![e] =
         [raw |-> t, type |-> "markdown",
          out |-> processText(MessageHelperNew(env.EMAIL_WHITELIST, env.CODE_KEYWORDS).codeKeywords,
                              t, "markdown")]]
  /\ parsed' = [parsed EXCEPT ![e] = TRUE]
  /\ msgId' = [msgId EXCEPT ![e] = id]
  /\ LET b == BotNew(env)
     IN  /\ bot' = [bot EXCEPT ![e] = b]
         /\ IF b.threw
              THEN /\ pc' = [pc EXCEPT ![e] = "forwarding"]
                   /\ UNCHANGED <<req, kvReads, priorSent, priorFailed>>
              ELSE BotSendStart(e, b, id)
  /\ UNCHANGED <<env, ledger, from, allowed, isSent, results, sendResult, forwards,
                 kvWrites, completed>>

\* mutant: a lookup that fails counts as "not sent" and the fan-out starts
KvGetFaultProceeds(e) ==
  /\ pc[e] = "kvget"
  /\ req' = [req EXCEPT ![e] = IssueRequests(bot[e].bots)]
  /\ pc' = [pc EXCEPT ![e] = "fanout"]
  /\ UNCHANGED <<env, text, ledger, from, allowed, parsed, msgId, bot, isSent, results,
                 sendResult, forwards, kvReads, kvWrites, completed, priorSent, priorFailed>>

\* checkIsMessageSent settles: a ledger fault, a hit (short-circuit) or a miss
KvGetFault(e) ==
  /\ pc[e] = "kvget"
  /\ sendResult' = [sendResult EXCEPT ![e] = [state |-> "threw", value |-> <<>>]]
  /\ pc' = [pc EXCEPT ![e] = "forwarding"]
  /\ UNCHANGED <<env, text, ledger, from, allowed, parsed, msgId, bot, isSent, req, results,
                 forwards, kvReads, kvWrites, completed, priorSent, priorFailed>>

\* mutant: a send that finds the entry renews it as it returns
KvGetDoneTouch(e) ==
  /\ pc[e] = "kvget"
  /\ IF checkIsMessageSent(ledger, msgId[e])
       THEN /\ isSent' = [isSent EXCEPT ![e] = "yes"]
            /\ sendResult' = [sendResult EXCEPT ![e] = [state |-> "returned", value |-> <<>>]]
            /\ completed' = completed \cup {msgId[e]}
            /\ ledger' = markMessageAsSent(ledger, msgId[e], bot[e].ttl, e)
            /\ pc' = [pc EXCEPT ![e] = "forwarding"]
            /\ UNCHANGED req
       ELSE /\ isSent' = [isSent EXCEPT ![e] = "no"]
            /\ req' = [req EXCEPT ![e] = IssueRequests(bot[e].bots)]
            /\ pc' = [pc EXCEPT ![e] = "fanout"]
            /\ UNCHANGED <<sendResult, completed, ledger>>
  /\ UNCHANGED <<env, text, from, allowed, parsed, msgId, bot, results, forwards,
                 kvReads, kvWrites, priorSent, priorFailed>>

\* mutant: a send that finds the entry writes it again before it returns
KvGetDoneRefresh(e) ==
  /\ pc[e] = "kvget"
  /\ IF checkIsMessageSent(ledger, msgId[e])
       THEN /\ isSent' = [isSent EXCEPT ![e] = "yes"]
            /\ pc' = [pc EXCEPT ![e] = "kvput"]
            /\ UNCHANGED <<req, sendResult, completed>>
       ELSE /\ isSent' = [isSent EXCEPT ![e] = "no"]
            /\ req' = [req EXCEPT ![e] = IssueRequests(bot[e].bots)]
            /\ pc' = [pc EXCEPT ![e] = "fanout"]
            /\ UNCHANGED <<sendResult, completed>>
  /\ UNCHANGED <<env, text, ledger, from, allowed, parsed, msgId, bot, results, forwards,
                 kvReads, kvWrites, priorSent, priorFailed>>

KvGetDone(e) ==
  /\ pc[e] = "kvget"
  /\ IF checkIsMessageSent(ledger, msgId[e])
       THEN /\ isSent' = [isSent EXCEPT ![e] = "yes"]
            /\ sendResult' = [sendResult EXCEPT ![e] = [state |-> "returned", value |-> <<>>]]
            /\ completed' = completed \cup {msgId[e]}
            /\ pc' = [pc EXCEPT ![e] = "forwarding"]
            /\ UNCHANGED req
       ELSE /\ isSent' = [isSent EXCEPT ![e] = "no"]
            /\ req' = [req EXCEPT ![e] = IssueRequests(bot[e].bots)]
            /\ pc' = [pc EXCEPT ![e] = "fanout"]
            /\ UNCHANGED <<sendResult, completed>>
  /\ UNCHANGED <<env, text, ledger, from, allowed, parsed, msgId, bot, results, forwards,
                 kvReads, kvWrites, priorSent, priorFailed>>

\* one destination's fetch settles: success, non-success status or transport fault
FetchSettle(e, a, i, outcome) ==
  /\ pc[e] = "fanout"
  /\ a \in 1..Len(req[e])
  /\ i \in 1..Len(req[e][a])
  /\ req[e][a][i].st = "pending"
  /\ req' = [req EXCEPT ![e][a][i] = SettleRequest(@, outcome)]
  /\ UNCHANGED <<env, text, ledger, pc, from, allowed, parsed, msgId, bot, isSent, results,
                 sendResult, forwards, kvReads, kvWrites, completed, priorSent, priorFailed>>

\* mutant: the ledger is written only when some destination succeeded
FanoutSettledMarkOnSuccess(e) ==
  /\ pc[e] = "fanout"
  /\ AllSettledReqs(e)
  /\ results' = [results EXCEPT ![e] = BotResults(bot[e].bots, req[e])]
  /\ IF /\ msgId[e] # NoId
        /\ \E a \in 1..Len(req[e]) : \E i \in 1..Len(req[e][a]) : req[e][a][i].st = "ok"
       THEN /\ pc' = [pc EXCEPT ![e] = "kvput"]
            /\ UNCHANGED sendResult
       ELSE /\ sendResult' = [sendResult EXCEPT ![e] =
                 [state |-> "returned", value |-> Flat(results'[e])]]
            /\ pc' = [pc EXCEPT ![e] = "forwarding"]
  /\ UNCHANGED <<env, text, ledger, from, allowed, parsed, msgId, bot, isSent, req,
                 forwards, kvReads, kvWrites, completed, priorSent, priorFailed>>

\* mutant: the fan-out is not awaited, the ledger write is issued while
\* requests are still pending
FanoutSettledEarly(e) ==
  /\ pc[e] = "fanout"
  /\ results' = [results EXCEPT ![e] = BotResults(bot[e].bots, req[e])]
  /\ IF msgId[e] # NoId
       THEN /\ pc' = [pc EXCEPT ![e] = "kvput"]
            /\ UNCHANGED sendResult
       ELSE /\ sendResult' = [sendResult EXCEPT ![e] =
                 [state |-> "returned", value |-> Flat(results'[e])]]
            /\ pc' = [pc EXCEPT ![e] = "forwarding"]
  /\ UNCHANGED <<env, text, ledger, from, allowed, parsed, msgId, bot, isSent, req,
                 forwards, kvReads, kvWrites, completed, priorSent, priorFailed>>

\* mutant: without any adapter the ledger is left alone
FanoutSettledSkipEmpty(e) ==
  /\ pc[e] = "fanout"
  /\ AllSettledReqs(e)
  /\ results' = [results EXCEPT ![e] = BotResults(bot[e].bots, req[e])]
  /\ IF msgId[e] # NoId /\ bot[e].bots # <<>>
       THEN /\ pc' = [pc EXCEPT ![e] = "kvput"]
            /\ UNCHANGED sendResult
       ELSE /\ sendResult' = [sendResult EXCEPT ![e] =
                 [state |-> "returned", value |-> Flat(results'[e])]]
            /\ pc' = [pc EXCEPT ![e] = "forwarding"]
  /\ UNCHANGED <<env, text, ledger, from, allowed, parsed, msgId, bot, isSent, req,
                 forwards, kvReads, kvWrites, completed, priorSent, priorFailed>>

\* mutant: the send goes on only once every destination answered with success
FanoutSettledWaitsForSuccess(e) ==
  /\ pc[e] = "fanout"
  /\ \A a \in 1..Len(req[e]) : \A i \in 1..Len(req[e][a]) : req[e][a][i].st = "ok"
  /\ results' = [results EXCEPT ![e] = BotResults(bot[e].bots, req[e])]
  /\ IF msgId[e] # NoId
       THEN /\ pc' = [pc EXCEPT ![e] = "kvput"]
            /\ UNCHANGED sendResult
       ELSE /\ sendResult' = [sendResult EXCEPT ![e] =
                 [state |-> "returned", value |-> Flat(results'[e])]]
            /\ pc' = [pc EXCEPT ![e] = "forwarding"]
  /\ UNCHANGED <<env, text, ledger, from, allowed, parsed, msgId, bot, isSent, req,
                 forwards, kvReads, kvWrites, completed, priorSent, priorFailed>>

\* Promise.allSettled resolves (line 264); then the ledger write is issued
\* (lines 267-269), or the send returns the flattened results (line 272)
FanoutSettled(e) ==
  /\ pc[e] = "fanout"
  /\ AllSettledReqs(e)
  /\ results' = [results EXCEPT ![e] = BotResults(bot[e].bots, req[e])]
  /\ IF msgId[e] # NoId
       THEN /\ pc' = [pc EXCEPT ![e] = "kvput"]
            /\ UNCHANGED sendResult
       ELSE /\ sendResult' = [sendResult EXCEPT ![e] =
                 [state |-> "returned", value |-> Flat(results'[e])]]
            /\ pc' = [pc EXCEPT ![e] = "forwarding"]
  /\ UNCHANGED <<env, text, ledger, from, allowed, parsed, msgId, bot, isSent, req,
                 forwards, kvReads, kvWrites, completed, priorSent, priorFailed>>

\* markMessageAsSent settles: a ledger fault, or the entry is stored
KvPutFault(e) ==
  /\ pc[e] = "kvput"
  /\ sendResult' = [sendResult EXCEPT ![e] = [state |-> "threw", value |-> <<>>]]
  /\ pc' = [pc EXCEPT ![e] = "forwarding"]
  /\ UNCHANGED <<env, text, ledger, from, allowed, parsed, msgId, bot, isSent, req, results,
                 forwards, kvReads, kvWrites, completed, priorSent, priorFailed>>

\* mutant: the write is a put-if-absent, skipped when an entry is there
KvPutDoneIfAbsent(e) ==
  /\ pc[e] = "kvput"
  /\ IF ledger[msgId[e]].present
       THEN UNCHANGED <<ledger, kvWrites>>
       ELSE /\ ledger' = markMessageAsSent(ledger, msgId[e], bot[e].ttl, e)
            /\ kvWrites' = [kvWrites EXCEPT ![e] =
                              Append(@, [key |-> msgId[e], ttl |-> ledger'[msgId[e]].ttl,
                                         value |-> ledger'[msgId[e]].value])]
  /\ sendResult' = [sendResult EXCEPT ![e] =
       [state |-> "returned", value |-> Flat(results[e])]]
  /\ completed' = completed \cup {msgId[e]}
  /\ pc' = [pc EXCEPT ![e] = "forwarding"]
  /\ UNCHANGED <<env, text, from, allowed, parsed, msgId, bot, isSent, req, results,
                 forwards, kvReads, priorSent, priorFailed>>

KvPutDone(e) ==
  /\ pc[e] = "kvput"
  /\ ledger' = markMessageAsSent(ledger, msgId[e], bot[e].ttl, e)
  /\ kvWrites' = [kvWrites EXCEPT ![e] =
                    Append(@, [key |-> msgId[e], ttl |-> ledger'[msgId[e]].ttl,
                               value |-> ledger'[msgId[e]].value])]
  /\ sendResult' = [sendResult EXCEPT ![e] =
       [state |-> "returned", value |-> Flat(results[e])]]
  /\ completed' = completed \cup {msgId[e]}
  /\ pc' = [pc EXCEPT ![e] = "forwarding"]
  /\ UNCHANGED <<env, text, from, allowed, parsed, msgId, bot, isSent, req, results,
                 forwards, kvReads, priorSent, priorFailed>>

\* helper.forwardMessage(FORWARD_TO, message) settles: lines 17-18 and 32-33
forwardMessage(e) ==
  /\ pc[e] \in {"forwardOnly", "forwarding"}
  /\ forwards' = [forwards EXCEPT ![e] = @ + 1]
  /\ pc' = [pc EXCEPT ![e] = "done"]
  /\ UNCHANGED <<env, text, ledger, from, allowed, parsed, msgId, bot, isSent, req, results,
                 sendResult, kvReads, kvWrites, completed, priorSent, priorFailed>>

\* the KV store drops an entry whose time-to-live has run out
Expire(m) ==
  /\ ledger[m].present
  /\ ledger' = [ledger EXCEPT ![m] = NoEntry]
  /\ completed' = completed \ {m}
  /\ priorSent' = [e \in Events |->
                     IF pc[e] = "kvget" /\ msgId[e] = m THEN FALSE ELSE priorSent[e]]
  /\ UNCHANGED <<env, text, pc, from, allowed, parsed, msgId, bot, isSent, req, results,
                 sendResult, forwards, kvReads, kvWrites, priorFailed>>

Next ==
  \/ \E e \in Events, f \in FromChoices : Receive(e, f)
  \/ \E e \in Events : ParseFail(e)
  \/ \E e \in Events, id \in MsgIds \cup {NoId} : ParseDone(e, id)
  \/ \E e \in Events : KvGetFault(e)
  \/ \E e \in Events : KvGetDone(e)
  \/ \E e \in Events, a \in 1..2, i \in 1..MaxDests, o \in Outcomes : FetchSettle(e, a, i, o)
  \/ \E e \in Events : FanoutSettled(e)
  \/ \E e \in Events : KvPutFault(e)
  \/ \E e \in Events : KvPutDone(e)
  \/ \E e \in Events : forwardMessage(e)
  \/ \E m \in MsgIds : Expire(m)

Spec == Init /\ [][Next]_vars

(***************************************************************************)
(* The allowlist check over all short addresses and allowlist strings: the *)
(* handler's first stretch, from an environment whose allowlist is drawn   *)
(* from every string over a small alphabet.                                *)
(***************************************************************************)
MaxFromLen == 4

MaxWlLen == 3

StrUpTo(alphabet, n) == UNION {[1..k -> alphabet] : k \in 0..n}

FromAlphabet == {"b", "B", "@", "."}

WlAlphabet == {"b", "@", ".", ","}

BaseEnv ==
  [EMAIL_WHITELIST |-> <<"b">>, CODE_KEYWORDS |-> <<"c">>,
   TELEGRAM_BOT_TOKEN |-> <<>>, TELEGRAM_CHAT_IDS |-> <<>>,
   WECOM_BOT_GUID |-> <<>>, MESSAGE_EXPIRATION_TTL |-> <<>>]

InitWL ==
  /\ \E w \in StrUpTo(WlAlphabet, MaxWlLen) \cup {<<" ", "B", " ">>, <<"b", ",", " ", "@", "b">>} :
       env = [BaseEnv EXCEPT !.EMAIL_WHITELIST = w]
  /\ EventInit

NextWL ==
  \/ pc[1] = "idle" /\ \E f \in StrUpTo(FromAlphabet, MaxFromLen) : Receive(1, f)
  \/ forwardMessage(1)

SpecWL == InitWL /\ [][NextWL]_vars

(***************************************************************************)
(* Adapter construction over many credential strings: the handler up to    *)
(* new Bot(env), from environments whose chat id list is any short string  *)
(* and whose GUID list is any short list of well- and ill-formed tokens.   *)
(***************************************************************************)
MaxIdLen == 4

MaxGuidTokens == 2

IdAlphabet == {"1", "2", "-", ",", " "}

Guid2 == <<"A","b","c","d","e","f","0","9","-","1","2","3","4","-","5","6","7","8","-",
           "9","a","B","c","-","d","E","f","0","1","2","3","4","5","6","7","8">>

\* ill-formed: a letter that is no hex digit; one character short
BadGuid == [Guid1 EXCEPT ![1] = "g"]

ShortGuid == Tail(Guid1)

GuidTokens == {Guid1, Guid2, <<" ">> \o Guid1 \o <<" ">>, BadGuid, ShortGuid, <<>>}

RECURSIVE Join(_, _)
Join(parts, sep) ==
  IF parts = <<>> THEN <<>>
  ELSE IF Len(parts) = 1 THEN parts[1]
  ELSE parts[1] \o <<sep>> \o Join(Tail(parts), sep)

GuidStrings == {Join(ts, ",") : ts \in StrUpTo(GuidTokens, MaxGuidTokens)}

InitCfg ==
  /\ \/ \E c \in StrUpTo(IdAlphabet, MaxIdLen), g \in {<<>>, Guid1} :
          env = [BaseEnv EXCEPT !.TELEGRAM_BOT_TOKEN = <<"t">>,
                                !.TELEGRAM_CHAT_IDS = c, !.WECOM_BOT_GUID = g]
     \/ \E c \in {<<>>, <<"1">>}, g \in GuidStrings :
          env = [BaseEnv EXCEPT !.TELEGRAM_BOT_TOKEN = <<"t">>,
                                !.TELEGRAM_CHAT_IDS = c, !.WECOM_BOT_GUID = g]
  /\ EventInit

NextCfg ==
  \/ Receive(1, <<"b", "@", "b">>)
  \/ \E id \in {NoId, "m1"} : ParseDone(1, id)

SpecCfg == InitCfg /\ [][NextCfg]_vars

(***************************************************************************)
(* processText over many bodies: the helper of a received email is asked   *)
(* to process bodies put together from keywords, separators and digit runs *)
(* of the verification-code shape, for both rendering types.               *)
(***************************************************************************)
MaxPieces == 4

BodyPieces ==
  {<<"c">>, <<"C">>, <<"x">>, <<" ">>, <<".">>,
   <<"1", "2", "3", "4", "5", "6">>,
   <<"1", "2", " ", "3", "4", "5", "6">>,
   <<"1", "2", "3", "4", "5">>}

RECURSIVE Concat(_)
Concat(parts) == IF parts = <<>> THEN <<>> ELSE Head(parts) \o Concat(Tail(parts))

Bodies == {Concat(ps) : ps \in StrUpTo(BodyPieces, MaxPieces)}

\* helper.processText(text, type) called on the helper of event e
ProcessTextCall(e, t, type) ==
  /\ pc[e] = "parsing"
  /\ text[e] = NoText
  /\ text' = [text EXCEPT ![e] =
       [raw |-> t, type |-> type,
        out |-> processText(MessageHelperNew(env.EMAIL_WHITELIST, env.CODE_KEYWORDS).codeKeywords,
                            t, type)]]
  /\ UNCHANGED <<env, ledger, pc, from, allowed, parsed, msgId, bot, isSent, req, results,
                 sendResult, forwards, kvReads, kvWrites, completed, priorSent, priorFailed>>

InitText ==
  /\ \E k \in {<<"c">>, <<"C", ",", " ", "x">>} : env = [BaseEnv EXCEPT !.CODE_KEYWORDS = k]
  /\ EventInit

NextText ==
  \/ Receive(1, <<"b", "@", "b">>)
  \/ pc[1] = "parsing" /\ \E t \in Bodies, type \in {"markdown", "text"} : ProcessTextCall(1, t, type)

SpecText == InitText /\ [][NextText]_vars

TypeOK ==
  /\ \A e \in Events : pc[e] \in {"idle", "aborted", "forwardOnly", "parsing", "kvget",
                                  "fanout", "kvput", "forwarding", "done"}
  /\ \A e \in Events : forwards[e] \in 0..1

(***************************************************************************)
(* The handler over the values of the ledger's time-to-live setting        *)
(***************************************************************************)
MaxTtlLen == 2

TtlAlphabet == {"6", "0", "-", "x"}

InitTtl ==
  /\ \E t \in StrUpTo(TtlAlphabet, MaxTtlLen) :
       env = [BaseEnv EXCEPT !.TELEGRAM_BOT_TOKEN = <<"t">>,
                             !.TELEGRAM_CHAT_IDS = <<"1">>,
                             !.MESSAGE_EXPIRATION_TTL = t]
  /\ EventInit

SpecTtl == InitTtl /\ [][Next]_vars

(***************************************************************************)
(* The handler under fair settling: every outbound request and every       *)
(* ledger operation eventually settles, and a resolved promise is resumed  *)
(***************************************************************************)
InitLive ==
  /\ env \in {r \in [EMAIL_WHITELIST : {<<"b">>},
                     CODE_KEYWORDS : {<<"c">>},
                     TELEGRAM_BOT_TOKEN : {<<"t">>},
                     TELEGRAM_CHAT_IDS : ChatIdChoices,
                     WECOM_BOT_GUID : {<<>>, Guid1},
                     MESSAGE_EXPIRATION_TTL : {<<>>}] :
                TotalDests(BotNew(r).bots) <= MaxDests}
  /\ EventInit

Settling(e) ==
  /\ WF_vars(\E a \in 1..2, i \in 1..MaxDests, o \in Outcomes : FetchSettle(e, a, i, o))
  /\ WF_vars(FanoutSettled(e))
  /\ WF_vars(KvGetDone(e) \/ KvGetFault(e))
  /\ WF_vars(KvPutDone(e) \/ KvPutFault(e))

SpecLive == InitLive /\ [][Next]_vars /\ \A e \in Events : Settling(e)

(***************************************************************************)
(* Properties                                                              *)
(***************************************************************************)
DefaultTtlSeconds == 86400

\* the send of event e went past the dedup check into the fan-out
Dispatched(e) ==
  parsed[e] /\ ~bot[e].threw /\ (msgId[e] = NoId \/ isSent[e] = "no")

\* every destination of every configured adapter has been requested exactly once
EachDestinationOnce(e) ==
  /\ Len(req[e]) = Len(bot[e].bots)
  /\ \A a \in 1..Len(req[e]) :
       /\ Len(req[e][a]) = Len(bot[e].bots[a].dests)
       /\ \A i \in 1..Len(req[e][a]) : req[e][a][i].attempts = 1

\* C1: every inbound event handled by the email handler ends with the
\* original email forwarded exactly once, whatever happened before.
C1_ForwardedExactlyOnce ==
  \A e \in Events :
    /\ forwards[e] <= 1
    /\ pc[e] \in {"done", "aborted"} => forwards[e] = 1

\* C2: a send for message id m that begins after a send for m has returned,
\* and reads the ledger before m's entry expires, invokes no adapter, and
\* when it returns it returns the empty collection.
C2_Idempotent ==
  \A e \in Events :
    priorSent[e] /\ pc[e] # "kvget" =>
      /\ req[e] = <<>>
      /\ results[e] = <<>>
      /\ sendResult[e].state \in {"returned", "threw"}
      /\ sendResult[e].state = "returned" => sendResult[e].value = <<>>

C2_Witness ==
  \E e \in Events :
    /\ priorSent[e]
    /\ sendResult[e].state = "returned"
    /\ isSent[e] = "yes"
    /\ Len(bot[e].bots) > 0
    /\ req[e] = <<>>

\* C3: a send for a message without a messageId is never short-circuited:
\* it reads no ledger entry, cannot fail, and invokes every configured
\* adapter for every destination, also when the same was sent before.
C3_NoIdAlwaysDispatched ==
  \A e \in Events :
    parsed[e] /\ msgId[e] = NoId /\ ~bot[e].threw =>
      /\ pc[e] \in {"fanout", "forwarding", "done"}
      /\ isSent[e] = "unread"
      /\ kvReads[e] = 0
      /\ sendResult[e].state # "threw"
      /\ EachDestinationOnce(e)

C3_Witness ==
  \E e, d \in Events :
    /\ d < e
    /\ msgId[d] = NoId /\ sendResult[d].state = "returned"
    /\ msgId[e] = NoId /\ sendResult[e].state = "returned"
    /\ from[d] = from[e]
    /\ Len(req[e]) = 2 /\ Len(req[d]) = 2

\* the time-to-live the configuration asks for
ConfiguredTtl ==
  CASE env.MESSAGE_EXPIRATION_TTL = <<>> -> Num(DefaultTtlSeconds)
    [] env.MESSAGE_EXPIRATION_TTL = <<"6", "0">> -> Num(60)

\* C4: a send for a messageId the ledger lookup did not find ends, whatever
\* the destinations answered, with the ledger write: when the send returns
\* it has written the id once, with the sentinel and the configured TTL.
C4_LedgerWrittenUnconditionally ==
  \A e \in Events :
    isSent[e] = "no" /\ pc[e] \in {"forwarding", "done"} =>
      IF sendResult[e].state = "returned"
        THEN kvWrites[e] = <<[key |-> msgId[e], ttl |-> ConfiguredTtl, value |-> "1"]>>
        ELSE sendResult[e].state = "threw" /\ kvWrites[e] = <<>>

C4_Witness ==
  \E e \in Events :
    /\ isSent[e] = "no"
    /\ sendResult[e].state = "returned"
    /\ Len(kvWrites[e]) = 1
    /\ Len(req[e]) = 2
    /\ \A a \in 1..Len(req[e]) : \A i \in 1..Len(req[e][a]) : req[e][a][i].st # "ok"

\* C5: an adapter's send never fails as a whole: it fulfils with exactly one
\* settled outcome per destination, in destination order.
C5_OneOutcomePerDestination ==
  \A e \in Events :
    Dispatched(e) /\ pc[e] \in {"kvput", "forwarding", "done"} =>
      /\ Len(results[e]) = Len(bot[e].bots)
      /\ \A a \in 1..Len(results[e]) :
           /\ results[e][a].status = "fulfilled"
           /\ Len(results[e][a].value) = Len(bot[e].bots[a].dests)
           /\ \A i \in 1..Len(results[e][a].value) :
                /\ results[e][a].value[i].settled \in {"fulfilled", "rejected"}
                /\ results[e][a].value[i].dest = bot[e].bots[a].dests[i]

C5_Witness ==
  \E e \in Events :
    /\ pc[e] = "kvput"
    /\ Len(results[e]) = 1
    /\ Len(results[e][1].value) = 2
    /\ req[e][1][1].st = "fault"
    /\ req[e][1][2].st = "bad"

\* C6: a send that does not short-circuit returns one entry per destination:
\* the length of its result is the sum of the adapters' destination counts.
C6_FlattenedPerDestination ==
  \A e \in Events :
    Dispatched(e) /\ sendResult[e].state = "returned" /\ pc[e] = "forwarding" =>
      Len(sendResult[e].value) = TotalDests(bot[e].bots)

\* C7: for a sender that is not allowlisted nothing is parsed, no dispatcher
\* is constructed, no adapter is invoked and the ledger is not touched; the
\* handler only forwards, once.
C7_NotAllowlistedForwardOnly ==
  \A e \in Events :
    allowed[e] = "no" =>
      /\ pc[e] \in {"forwardOnly", "done"}
      /\ ~parsed[e]
      /\ bot[e] = NoBot
      /\ req[e] = <<>>
      /\ kvReads[e] = 0
      /\ kvWrites[e] = <<>>
      /\ sendResult[e] = NoResult
      /\ pc[e] = "done" => forwards[e] = 1

C7_Witness ==
  \E e \in Events : allowed[e] = "no" /\ pc[e] = "done" /\ forwards[e] = 1

\* C8: in a send that does not short-circuit, every destination of every
\* adapter gets exactly one request, whatever the other requests' outcomes:
\* none is retried and none is skipped.
C8_OneAttemptPerDestination ==
  \A e \in Events :
    Dispatched(e) =>
      /\ EachDestinationOnce(e)
      /\ pc[e] # "fanout" => AllSettledReqs(e)

C8_Witness ==
  \E e \in Events :
    /\ sendResult[e].state = "returned"
    /\ Len(req[e]) = 2
    /\ req[e][1][1].st = "fault"
    /\ req[e][2][1].st = "ok"
    /\ EachDestinationOnce(e)

\* the tokens of a credential string, as written between the commas
Tokens(raw) == MapSeq(Trim, Split(raw, ","))

RECURSIVE IsSubsequence(_, _)
\* xs can be obtained from ys by dropping elements (order kept)
IsSubsequence(xs, ys) ==
  IF xs = <<>> THEN TRUE
  ELSE IF ys = <<>> THEN FALSE
  ELSE IF Head(xs) = Head(ys) THEN IsSubsequence(Tail(xs), Tail(ys))
  ELSE IsSubsequence(xs, Tail(ys))

\* the credential token a destination was made from
DestToken(b, i) ==
  IF b.kind = "wecom"
    THEN SubSeq(b.dests[i], Len(WebhookPrefix) + 1, Len(b.dests[i]))
    ELSE b.dests[i]

DestTokens(b) == [i \in 1..Len(b.dests) |-> DestToken(b, i)]

RawOf(b) == IF b.kind = "wecom" THEN env.WECOM_BOT_GUID ELSE env.TELEGRAM_CHAT_IDS

ValidToken(b, t) == IF b.kind = "wecom" THEN IsGuid(t) ELSE IsChatId(t)

\* the part of C9 that does not speak of duplicates
ValidOrderedNonEmpty(b) ==
  /\ Len(b.dests) > 0
  /\ \A i \in 1..Len(b.dests) : ValidToken(b, DestToken(b, i))
  /\ IsSubsequence(DestTokens(b), Tokens(RawOf(b)))

NoValidToken(raw, kind) ==
  \A k \in 1..Len(Tokens(raw)) : ~ValidToken([kind |-> kind], Tokens(raw)[k])

ConstructionFailsWithoutValidToken(e) ==
  /\ (Truthy(env.TELEGRAM_BOT_TOKEN) /\ Truthy(env.TELEGRAM_CHAT_IDS)
        /\ NoValidToken(env.TELEGRAM_CHAT_IDS, "telegram")) => bot[e].threw
  /\ (Truthy(env.WECOM_BOT_GUID) /\ NoValidToken(env.WECOM_BOT_GUID, "wecom")) => bot[e].threw

\* C9: a constructed adapter holds a non-empty list of destinations, each
\* made from a token that passes the provider's syntax check, in the order
\* of the input, none of them twice; and construction fails when no token
\* validates.
C9_DistinctValidDestinations ==
  \A e \in Events :
    parsed[e] =>
      /\ ConstructionFailsWithoutValidToken(e)
      /\ \A a \in 1..Len(bot[e].bots) :
           /\ ValidOrderedNonEmpty(bot[e].bots[a])
           /\ \A i, j \in 1..Len(bot[e].bots[a].dests) :
                i # j => bot[e].bots[a].dests[i] # bot[e].bots[a].dests[j]

\* what holds of the code: C9 without the distinctness
C9_ValidDestinationsKept ==
  \A e \in Events :
    parsed[e] =>
      /\ ConstructionFailsWithoutValidToken(e)
      /\ \A a \in 1..Len(bot[e].bots) : ValidOrderedNonEmpty(bot[e].bots[a])

\* the part of an address after its last "@"
RECURSIVE DomainOf(_)
DomainOf(addr) ==
  IF addr = <<>> \/ addr[Len(addr)] = "@" THEN <<>>
  ELSE Append(DomainOf(SubSeq(addr, 1, Len(addr) - 1)), addr[Len(addr)])

\* the match rule as the specification words it; an entry with an "@" is a
\* full address, any other entry a bare domain
AllowRule(entries, addr) ==
  LET a == ToLowerCase(addr)
  IN  \E k \in 1..Len(entries) :
        LET entry == entries[k]
            full == IncludesChar(entry, "@")
        IN  \/ full /\ entry = a
            \/ ~full /\ IncludesChar(a, "@") /\ DomainOf(a) = entry
            \/ ~full /\ Len(a) > Len(entry)
                 /\ a[Len(a) - Len(entry)] = "."
                 /\ \A i \in 1..Len(entry) : a[Len(a) - Len(entry) + i] = entry[i]

\* C10: the allowlist check answers, for every address, exactly as the
\* match rule says (full address equal, or domain equal to a bare-domain
\* entry, or address ending in "." + entry), and always answers.
C10_WhitelistRule ==
  \A e \in Events :
    /\ pc[e] \notin {"idle", "aborted"} => allowed[e] \in {"yes", "no"}
    /\ allowed[e] # "unknown" =>
         (allowed[e] = "yes" <=> AllowRule(normalizeConfigList(env.EMAIL_WHITELIST), from[e]))

\* allowed by the subdomain rule alone, for an address written in upper case
C10_Witness ==
  \E e \in Events :
    /\ allowed[e] = "yes"
    /\ from[e] # ToLowerCase(from[e])
    /\ IncludesChar(from[e], "@")
    /\ \A k \in 1..Len(normalizeConfigList(env.EMAIL_WHITELIST)) :
         LET entry == normalizeConfigList(env.EMAIL_WHITELIST)[k]
         IN  entry # ToLowerCase(from[e]) /\ DomainOf(ToLowerCase(from[e])) # entry

\* the digits of a matched code
CleanDigits(code) == SelectSeq(code, IsDigit)

\* the body with every span replaced, each by its own rendering
RECURSIVE SpliceFrom(_, _, _, _)
SpliceFrom(body, pos, spans, type) ==
  IF spans = <<>> THEN SubSeq(body, pos, Len(body))
  ELSE LET code == SubSeq(body, Head(spans).s, Head(spans).e)
           shown == IF type = "text" THEN CleanDigits(code)
                    ELSE Fence \o <<"\n">> \o CleanDigits(code) \o <<"\n">> \o Fence
       IN  SubSeq(body, pos, Head(spans).s - 1) \o shown
             \o SpliceFrom(body, Head(spans).e + 1, Tail(spans), type)

KeywordsOf(e) == normalizeConfigList(env.CODE_KEYWORDS)

C12_OverlappingSendsBothNotify ==
  \A e, d \in Events :
    e # d /\ msgId[e] # NoId /\ msgId[e] = msgId[d] /\ isSent[e] = "no" /\ isSent[d] = "no" =>
      /\ EachDestinationOnce(e)
      /\ EachDestinationOnce(d)
      /\ \A x \in {e, d} :
           sendResult[x].state = "returned" =>
             /\ Len(kvWrites[x]) = 1
             /\ kvWrites[x][1].key = msgId[x]
             /\ AllSettledReqs(x)

\* both sends returned, every destination was requested by both, both wrote,
\* and the later write replaced the unexpired entry of the earlier one: the
\* later writer had read the ledger before the earlier one wrote
C12_Witness ==
  \E e, d \in Events :
    /\ e # d /\ msgId[e] # NoId /\ msgId[e] = msgId[d]
    /\ isSent[e] = "no" /\ isSent[d] = "no"
    /\ sendResult[e].state = "returned" /\ sendResult[d].state = "returned"
    /\ Len(kvWrites[e]) = 1 /\ Len(kvWrites[d]) = 1
    /\ TotalDests(bot[e].bots) = MaxDests
    /\ EachDestinationOnce(e) /\ EachDestinationOnce(d)
    /\ ledger[msgId[e]].present /\ ledger[msgId[e]].over /\ ledger[msgId[e]].by = e

\* C13: in a send for a message with an id the ledger is read exactly once,
\* and the read has settled before any adapter request is issued; the ledger
\* write is issued only after every destination request has settled.
C13_ReadThenFanoutThenWrite ==
  \A e \in Events :
    /\ kvReads[e] <= 1
    /\ parsed[e] /\ msgId[e] # NoId /\ ~bot[e].threw => kvReads[e] = 1
    /\ pc[e] = "kvget" => req[e] = <<>> /\ isSent[e] = "unread"
    /\ msgId[e] # NoId /\ req[e] # <<>> => kvReads[e] = 1 /\ isSent[e] = "no"
    /\ pc[e] = "kvput" \/ kvWrites[e] # <<>> =>
         /\ isSent[e] = "no"
         /\ EachDestinationOnce(e)
         /\ AllSettledReqs(e)

C13_Witness ==
  \E e \in Events :
    /\ msgId[e] # NoId
    /\ kvReads[e] = 1
    /\ Len(kvWrites[e]) = 1
    /\ TotalDests(bot[e].bots) = MaxDests
    /\ AllSettledReqs(e)
    /\ \E a \in 1..Len(req[e]) : \E i \in 1..Len(req[e][a]) : req[e][a][i].st = "fault"

\* C14: a ledger entry is never updated: a write for key m happens only
\* when no unexpired entry for m exists.
C14_EntryNeverUpdated ==
  \A m \in MsgIds : ledger[m].present => ~ledger[m].over

\* C14, as the code has it: only a send whose own lookup found no entry
\* writes, and it writes once; an unexpired entry is replaced only by a send
\* that overlapped the send that wrote it, never by a send that began after
\* that one returned.
C14_UpdatedOnlyByOverlappingSend ==
  /\ \A e \in Events :
       pc[e] = "kvput" \/ kvWrites[e] # <<>> => isSent[e] = "no" /\ Len(kvWrites[e]) <= 1
  /\ \A m \in MsgIds :
       ledger[m].present /\ ledger[m].over =>
         /\ ~priorSent[ledger[m].by]
         /\ ledger[m].value = "1" /\ ledger[m].ttl = ConfiguredTtl
         /\ \E d \in Events \ {ledger[m].by} :
              msgId[d] = m /\ isSent[d] = "no" /\ Len(kvWrites[d]) = 1

C14_Witness ==
  \E m \in MsgIds :
    /\ ledger[m].present /\ ledger[m].over
    /\ \A e \in Events : msgId[e] = m /\ pc[e] = "done" /\ kvWrites[e] # <<>>

\* the send of event e is under way: started and not yet settled
SendRunning(e) == pc[e] \in {"kvget", "fanout", "kvput"}

\* the send of event e has settled
SendOver(e) == pc[e] \in {"forwarding", "done"} /\ sendResult[e].state \in {"returned", "threw"}

\* C15: provided every outbound request and every ledger operation
\* eventually settles, a send that has started eventually comes back to the
\* handler, and when it does none of the requests it started is pending.
C15_SendRunsToCompletion ==
  \A e \in Events : SendRunning(e) ~> (SendOver(e) /\ AllSettledReqs(e))

C15_Witness ==
  \E e \in Events :
    /\ SendOver(e)
    /\ sendResult[e].state = "returned"
    /\ TotalDests(bot[e].bots) = MaxDests
    /\ AllSettledReqs(e)
    /\ \E a \in 1..Len(req[e]) : \E i \in 1..Len(req[e][a]) : req[e][a][i].st = "bad"

RECURSIVE DecimalValue(_)
\* the number a string of decimal digits writes
DecimalValue(str) ==
  IF str = <<>> THEN 0
  ELSE 10 * DecimalValue(SubSeq(str, 1, Len(str) - 1)) + DigitVal(str[Len(str)])

\* C16: every ledger write, issued or stored, uses a time-to-live that is a
\* positive whole number of seconds: the default when the setting is unset,
\* the number the setting writes when it is set.
C16_TtlPositiveInteger ==
  \A e \in Events :
    pc[e] = "kvput" \/ kvWrites[e] # <<>> =>
      /\ ~bot[e].ttl.nan
      /\ bot[e].ttl.val > 0
      /\ env.MESSAGE_EXPIRATION_TTL = <<>> => bot[e].ttl.val = DefaultTtlSeconds
      /\ env.MESSAGE_EXPIRATION_TTL # <<>>
            /\ (\A k \in 1..Len(env.MESSAGE_EXPIRATION_TTL) : env.MESSAGE_EXPIRATION_TTL[k] \in Digits)
           => bot[e].ttl.val = DecimalValue(env.MESSAGE_EXPIRATION_TTL)
      /\ \A k \in 1..Len(kvWrites[e]) : kvWrites[e][k].ttl = bot[e].ttl

\* the construction of a configured adapter fails on this configuration
AdapterConstructionFails ==
  \/ /\ Truthy(env.TELEGRAM_BOT_TOKEN) /\ Truthy(env.TELEGRAM_CHAT_IDS)
     /\ TelegramMessageNew(env.TELEGRAM_BOT_TOKEN, env.TELEGRAM_CHAT_IDS).threw
  \/ /\ Truthy(env.WECOM_BOT_GUID)
     /\ WeComMessageNew(env.WECOM_BOT_GUID).threw

\* C17: when the construction of a configured adapter fails, the event
\* invokes no adapter at all, not even one whose configuration is valid,
\* reads and writes no ledger entry, and goes on to the forward.
C17_ConstructionFailureSkipsAllAdapters ==
  \A e \in Events :
    parsed[e] /\ AdapterConstructionFails =>
      /\ req[e] = <<>>
      /\ results[e] = <<>>
      /\ kvReads[e] = 0
      /\ kvWrites[e] = <<>>
      /\ pc[e] \in {"forwarding", "done"}
      /\ pc[e] = "done" => forwards[e] = 1

C17_Witness ==
  \E e \in Events :
    /\ parsed[e] /\ msgId[e] # NoId
    /\ AdapterConstructionFails
    /\ Truthy(env.WECOM_BOT_GUID) /\ ~WeComMessageNew(env.WECOM_BOT_GUID).threw
    /\ pc[e] = "done" /\ forwards[e] = 1

\* C18: with no adapter configured, a send for a message whose id the
\* ledger does not hold issues no request, returns the empty collection and
\* has then written the id to the ledger all the same.
C18_NoAdapterStillRecorded ==
  \A e \in Events :
    parsed[e] /\ ~bot[e].threw /\ bot[e].bots = <<>> /\ msgId[e] # NoId /\ isSent[e] = "no" =>
      /\ req[e] = <<>>
      /\ pc[e] \in {"fanout", "kvput", "forwarding", "done"}
      /\ pc[e] \in {"forwarding", "done"} => sendResult[e].state \in {"returned", "threw"}
      /\ sendResult[e].state = "returned" =>
           /\ sendResult[e].value = <<>>
           /\ Len(kvWrites[e]) = 1
           /\ kvWrites[e][1].key = msgId[e] /\ kvWrites[e][1].value = "1"
      /\ sendResult[e].state = "threw" => kvWrites[e] = <<>>

C18_Witness ==
  \E e \in Events :
    /\ bot[e].bots = <<>> /\ ~bot[e].threw
    /\ ~Truthy(env.TELEGRAM_CHAT_IDS) /\ ~Truthy(env.WECOM_BOT_GUID)
    /\ isSent[e] = "no"
    /\ sendResult[e] = [state |-> "returned", value |-> <<>>]
    /\ req[e] = <<>>
    /\ ledger[msgId[e]].present /\ ledger[msgId[e]].by = e

\* the step changes the ledger on behalf of event e
WritesLedger(e) ==
  /\ msgId[e] # NoId
  /\ ledger'[msgId[e]] # ledger[msgId[e]]
  /\ ledger'[msgId[e]].present
  /\ ledger'[msgId[e]].by = e

\* C19: a send for a message without an id neither reads nor writes the
\* ledger, and a send that finds its id in the ledger returns without
\* writing: the entry it found keeps its value and its expiry. Every change
\* of the ledger is an expiry or the write of a send that read "not sent".
C19_LedgerFrame ==
  /\ [](\A e \in Events :
         /\ msgId[e] = NoId => kvReads[e] = 0 /\ kvWrites[e] = <<>> /\ isSent[e] = "unread"
         /\ isSent[e] = "yes" => kvWrites[e] = <<>> /\ pc[e] \in {"forwarding", "done"})
  /\ [][\A m \in MsgIds :
          ledger'[m] # ledger[m] =>
            \/ ledger'[m] = NoEntry
            \/ \E e \in Events :
                 /\ msgId[e] = m /\ isSent[e] = "no" /\ pc[e] = "kvput"
                 /\ WritesLedger(e)]_vars

\* a send found the entry another send had written and returned; the entry
\* is the one that send wrote, never replaced
C19_Witness ==
  \E e, d \in Events :
    /\ e # d
    /\ isSent[e] = "yes" /\ sendResult[e] = [state |-> "returned", value |-> <<>>]
    /\ pc[e] = "done"
    /\ kvWrites[e] = <<>>
    /\ ledger[msgId[e]].present /\ ledger[msgId[e]].by = d /\ ~ledger[msgId[e]].over
    /\ Len(kvWrites[d]) = 1

\* C20: a send whose ledger lookup fails invokes no adapter and writes
\* nothing; a send whose ledger write fails after the fan-out fails with
\* every destination already requested and its id unrecorded, so that a
\* later send for the id that reads the ledger requests every destination
\* again; in both cases the handler goes on to the forward.
C20_LedgerFaults ==
  \A e \in Events :
    /\ msgId[e] # NoId /\ isSent[e] = "unread" => req[e] = <<>> /\ kvWrites[e] = <<>>
    /\ sendResult[e].state = "threw" =>
         /\ pc[e] \in {"forwarding", "done"}
         /\ pc[e] = "done" => forwards[e] = 1
         /\ kvWrites[e] = <<>>
         /\ ~(ledger[msgId[e]].present /\ ledger[msgId[e]].by = e)
         /\ isSent[e] \in {"unread", "no"}
         /\ isSent[e] = "no" => EachDestinationOnce(e) /\ AllSettledReqs(e)
    /\ priorFailed[e] /\ pc[e] # "kvget" /\ sendResult[e].state # "threw" =>
         \/ isSent[e] = "no" /\ EachDestinationOnce(e)
         \/ /\ isSent[e] = "yes"
            /\ \E d \in Events \ {e} : msgId[d] = msgId[e] /\ Len(kvWrites[d]) = 1

\* the write of d failed after every destination answered with success; e,
\* started later for the same id, read "not sent" and had every destination
\* answer again; d was forwarded
C20_Witness ==
  \E e, d \in Events :
    /\ e # d /\ msgId[d] # NoId /\ msgId[e] = msgId[d]
    /\ sendResult[d].state = "threw" /\ isSent[d] = "no"
    /\ pc[d] = "done" /\ forwards[d] = 1
    /\ priorFailed[e] /\ isSent[e] = "no"
    /\ TotalDests(bot[e].bots) = MaxDests
    /\ \A x \in {e, d} : \A a \in 1..Len(req[x]) : \A i \in 1..Len(req[x][a]) : req[x][a][i].st = "ok"
    /\ EachDestinationOnce(e) /\ EachDestinationOnce(d)
====
